---------------------------- MODULE Spec2Model ----------------------------
(* A model of the MSSQLDocumenter batch documentation pipeline:            *)
(*   services/vector_store.py      VectorStore (the Document Index)        *)
(*   services/db_object_documenter.py and the four documenter variants     *)
(*   services/documenter.py        DatabaseDocumenter (Batch Orchestrator) *)
(*   api/routes.py                 the routes that start a batch / clear   *)
(* Python strings are TLA+ strings; Optional values are sequences of       *)
(* length 0 (None) or 1.                                                   *)
EXTENDS Integers, Sequences, FiniteSets, TLC

VARIABLES
    provider,   \* LLMClient.default_provider, as llm_config.json gives it
    db,         \* the objects of the database a discovery can return
    store,      \* the chromadb client's collections: name -> [exists, docs]
    progress,   \* DatabaseDocumenter.progress (ProgressState)
    pc,         \* per document_batch task: none/spawned/init/proc/await/done
    args,       \* per task: the arguments of the call, the object it waits for
    todo,       \* per task: the indices of the discovered list still to visit
    now,        \* the clock, in seconds
    last,       \* what the last executed step did and returned or raised
    snap        \* a dictionary get_progress returned, held by its caller

vars == <<provider, db, store, progress, pc, args, todo, now, last, snap>>

-----------------------------------------------------------------------------
(* Bounds of the model                                                      *)

\* the longest list a discovery returns
MaxObjects == 2

\* the batch requests of one run: each creates a document_batch task
MaxTasks == 2

-----------------------------------------------------------------------------
(* Optional values and Python truthiness                                    *)

None == <<>>

Some(v) == <<v>>

\* `if x:` for an Optional[int]: None and 0 are falsy
TruthyInt(x) == x # None /\ x[1] # 0

\* `if s:` for an Optional[str]: None and "" are falsy
TruthyStr(s) == s # None /\ s[1] # ""

\* `if rows:` for a list
TruthyList(l) == Len(l) > 0

\* sub in s, as Python's `in` / str.find(...) > -1
Contains(s, sub) ==
    \E i \in 1..(Len(s) - Len(sub) + 1) : SubSeq(s, i, i + Len(sub) - 1) = sub

\* the positions at which sub occurs in s
Occurrences(s, sub) ==
    {i \in 1..(Len(s) - Len(sub) + 1) : SubSeq(s, i, i + Len(sub) - 1) = sub}

\* str.find(sub): the lowest index, from 0, at which sub occurs, or -1
Find(s, sub) ==
    IF Occurrences(s, sub) = {} THEN -1
    ELSE (CHOOSE i \in Occurrences(s, sub) :
              \A j \in Occurrences(s, sub) : i <= j) - 1

-----------------------------------------------------------------------------
(* The Document Index: services/vector_store.py                             *)

\* the keys of VectorStore.collections, in insertion order
ObjTypeOrder == <<"table", "view", "procedure", "function">>

ObjTypes == {ObjTypeOrder[i] : i \in 1..Len(ObjTypeOrder)}

\* the name of the collection behind a partition ("tables", "views", ...)
CollectionName(t) == t \o "s"

CollNames == {CollectionName(t) : t \in ObjTypes}

\* the client right after VectorStore.__init__: four empty collections
EmptyStore == [n \in CollNames |-> [exists |-> TRUE, docs |-> {}]]

\* a raising call leaves the client as it was
Raise(st, msg) == [ok |-> FALSE, error |-> msg, store |-> st]

Return(st) == [ok |-> TRUE, error |-> "", store |-> st]

\* chromadb: client.delete_collection(name)
DeleteCollection(st, name, fault) ==
    IF fault THEN Raise(st, "delete " \o name \o " failed")
    ELSE IF ~st[name].exists THEN Raise(st, "Collection " \o name \o " does not exist.")
    ELSE Return([st EXCEPT ![name] = [exists |-> FALSE, docs |-> {}]])

\* chromadb: client.create_collection(name)
CreateCollection(st, name, fault) ==
    IF fault THEN Raise(st, "create " \o name \o " failed")
    ELSE IF st[name].exists THEN Raise(st, "Collection " \o name \o " already exists.")
    ELSE Return([st EXCEPT ![name] = [exists |-> TRUE, docs |-> {}]])

\* chromadb: client.get_or_create_collection(name)
GetOrCreateCollection(st, name, fault) ==
    IF fault THEN Raise(st, "get_or_create " \o name \o " failed")
    ELSE IF st[name].exists THEN Return(st)
    ELSE Return([st EXCEPT ![name] = [exists |-> TRUE, docs |-> {}]])

\* chromadb: client.reset() deletes every collection of the client
ClientReset(st, fault) ==
    IF fault THEN Raise(st, "reset failed")
    ELSE Return([n \in CollNames |-> [exists |-> FALSE, docs |-> {}]])

\* the call through the handle self.collections[t] reaches a live collection
HandleLive(st, t) == st[CollectionName(t)].exists

\* chromadb: collection.count()
Count(st, t) == Cardinality(st[CollectionName(t)].docs)

\* an add in place of the upsert: a record of the same id is kept
CollectionUpsert_Add(docs, rec) == docs \cup {rec}

\* chromadb: collection.upsert(ids=[id], ...): the record of that id is
\* replaced, or added when there is none
CollectionUpsert(docs, rec) == {d \in docs : d.id # rec.id} \cup {rec}


\* doc_id = f"{schema}.{name}"
DocId(schema, name) == schema \o "." \o name

\* {"schema": schema, "name": name, "type": obj_type, **metadata}
MergeMetadata(schema, name, obj_type, metadata) ==
    LET base == [schema |-> schema, name |-> name, type |-> obj_type]
    IN [k \in DOMAIN base \cup DOMAIN metadata |->
            IF k \in DOMAIN metadata THEN metadata[k] ELSE base[k]]

\* VectorStore.add_documentation; `fault`: the upsert itself fails
AddDocumentation(st, schema, name, obj_type, content, metadata, fault) ==
    IF obj_type \notin ObjTypes
    THEN Raise(st, "'" \o obj_type \o "'")
    ELSE IF fault
    THEN Raise(st, "upsert failed")
    ELSE IF ~HandleLive(st, obj_type)
    THEN Raise(st, "Collection " \o CollectionName(obj_type) \o " does not exist.")
    ELSE Return([st EXCEPT ![CollectionName(obj_type)].docs =
                    CollectionUpsert(@, [id |-> DocId(schema, name),
                                         content |-> content,
                                         metadata |-> MergeMetadata(schema, name,
                                                          obj_type, metadata)])])

\* VectorStore.get_stats: the four counts, or all zero when a count raises
GetStats(st) ==
    IF \A t \in ObjTypes : HandleLive(st, t)
    THEN [t \in ObjTypes |-> Count(st, t)]
    ELSE [t \in ObjTypes |-> 0]

(* clear() makes up to nine calls of the client: delete and create for each *)
(* of the four partitions (calls 1..8), then reset (call 9). failAt names   *)
(* the call that fails for a reason of the backend (0: none does).          *)

\* the number of the client.reset() call among clear()'s calls
ResetCall == 2 * Len(ObjTypeOrder) + 1

RECURSIVE ClearCollectionsFrom(_, _, _)
\* VectorStore.clear_collections, from the i-th partition on
ClearCollectionsFrom(st, i, failAt) ==
    IF i > Len(ObjTypeOrder) THEN Return(st)
    ELSE LET name == CollectionName(ObjTypeOrder[i])
             d == DeleteCollection(st, name, failAt = 2 * i - 1)
         IN IF ~d.ok THEN d
            ELSE LET c == CreateCollection(d.store, name, failAt = 2 * i)
                 IN IF ~c.ok THEN c
                    ELSE ClearCollectionsFrom(c.store, i + 1, failAt)

\* VectorStore.clear_collections
ClearCollections(st, failAt) == ClearCollectionsFrom(st, 1, failAt)

RECURSIVE RecreateFrom(_, _, _)
\* the cleanup loop of VectorStore.clear; recFailAt: the get_or_create call
\* that fails (0: none does)
RecreateFrom(st, i, recFailAt) ==
    IF i > Len(ObjTypeOrder) THEN Return(st)
    ELSE LET g == GetOrCreateCollection(st, ObjTypeOrder[i] \o "s", recFailAt = i)
         IN IF ~g.ok THEN g ELSE RecreateFrom(g.store, i + 1, recFailAt)

\* error_msg = f"Failed to clear vector store: {str(e)}"
ClearErrorMsg(e) == "Failed to clear vector store: " \o e

\* a message that keeps the cleanup failure only
ClearBothMsg_CleanupOnly(error_msg, cleanup_error) ==
    "Cleanup failed: " \o cleanup_error

\* f"{error_msg}. Additionally, cleanup failed: {str(cleanup_error)}"
ClearBothMsg(error_msg, cleanup_error) ==
    error_msg \o ". Additionally, cleanup failed: " \o cleanup_error

\* a clear without its cleanup loop
Clear_NoCleanup(st, failAt, recFailAt) ==
    LET cc == ClearCollections(st, failAt)
        r == IF cc.ok THEN ClientReset(cc.store, failAt = ResetCall) ELSE cc
    IN IF r.ok
       THEN [ok |-> TRUE, error |-> "", store |-> r.store,
             original |-> "", cleanup |-> "", recovered |-> FALSE]
       ELSE [ok |-> FALSE, error |-> ClearErrorMsg(r.error),
             store |-> r.store, original |-> r.error,
             cleanup |-> "", recovered |-> TRUE]

\* VectorStore.clear. The result also tells the text of the original failure
\* and of the cleanup failure ("" when there was none).
Clear(st, failAt, recFailAt) ==
    LET cc == ClearCollections(st, failAt)
        r == IF cc.ok THEN ClientReset(cc.store, failAt = ResetCall) ELSE cc
    IN IF r.ok
       THEN [ok |-> TRUE, error |-> "", store |-> r.store,
             original |-> "", cleanup |-> "", recovered |-> FALSE]
       ELSE LET rec == RecreateFrom(r.store, 1, recFailAt)
            IN IF rec.ok
               THEN [ok |-> FALSE, error |-> ClearErrorMsg(r.error),
                     store |-> rec.store, original |-> r.error,
                     cleanup |-> "", recovered |-> TRUE]
               ELSE [ok |-> FALSE,
                     error |-> ClearBothMsg(ClearErrorMsg(r.error), rec.error),
                     store |-> rec.store, original |-> r.error,
                     cleanup |-> rec.error, recovered |-> FALSE]

-----------------------------------------------------------------------------
(* The metadata queries and the Enrichment Gateway, as the documenters see  *)
(* them. An answer of a query is [raises, rows]; a reply of the gateway is  *)
(* [raises, text] with text an Optional string.                             *)

Schemas == {"dbo"}

Names == {"a", "b"}

\* a type tag a discovery row may carry that has no documenter
OtherType == "synonym"

Ref(schema, name, type) == [schema_name |-> schema, name |-> name, type |-> type]

\* the databases of the model: each holds two objects that have a
\* documenter, under one name, and one of a type that has none
Databases ==
    { {Ref("dbo", "a", "table"), Ref("dbo", "a", "procedure"),
       Ref("dbo", "a", OtherType)},
      {Ref("dbo", "b", "view"), Ref("dbo", "b", "function"),
       Ref("dbo", "b", OtherType)} }

\* the narrative the gateway returns when it returns one
Narrative == "Stores rows."

Replies ==
    { [raises |-> TRUE, text |-> None],
      [raises |-> FALSE, text |-> None],
      [raises |-> FALSE, text |-> Some("")],
      [raises |-> FALSE, text |-> Some(Narrative)] }

Rows(rows) == [raises |-> FALSE, rows |-> rows]

QueryError == [raises |-> TRUE, rows |-> <<>>]

\* the rows of the catalog: object "a" has every optional part, "b" none
ColumnRows(name) ==
    IF name = "a"
    THEN << [column_name |-> "id", data_type |-> "int", max_length |-> 4,
             precision |-> Some(10), scale |-> Some(0),
             is_nullable |-> FALSE, description |-> Some("Key")],
            [column_name |-> "amount", data_type |-> "decimal", max_length |-> -1,
             precision |-> Some(10), scale |-> Some(2),
             is_nullable |-> TRUE, description |-> None] >>
    ELSE << [column_name |-> "note", data_type |-> "xml", max_length |-> -1,
             precision |-> Some(0), scale |-> Some(0),
             is_nullable |-> TRUE, description |-> Some("")] >>

IndexRows(name) ==
    IF name = "a"
    THEN << [index_name |-> "PK_a", type_desc |-> "CLUSTERED",
             is_unique |-> TRUE, columns |-> "id"] >>
    ELSE <<>>

ForeignKeyRows(name) ==
    IF name = "a"
    THEN << [fk_name |-> "FK_a_b", referenced_schema |-> "dbo",
             referenced_table |-> "b", columns |-> "id",
             referenced_columns |-> "id"] >>
    ELSE <<>>

ParameterRows(name) ==
    IF name = "a"
    THEN << [param_name |-> "@n", data_type |-> "float", max_length |-> -1,
             precision |-> Some(53), scale |-> None,
             is_output |-> TRUE, description |-> Some("Count")] >>
    ELSE <<>>

ReturnTypeRows(name) ==
    IF name = "a"
    THEN << [return_type |-> "varchar", max_length |-> 50,
             precision |-> None, scale |-> None] >>
    ELSE << [return_type |-> "decimal", max_length |-> -1,
             precision |-> Some(10), scale |-> Some(2)] >>

DefinitionRows(name) == << <<Some("SELECT " \o name)>> >>

\* what can go wrong with the queries of one document() call
DocFaults(type) ==
    CASE type = "table" -> {"none", "columns", "indexes", "foreign_keys", "nodef"}
      [] type = "view" -> {"none", "columns", "definition", "nodef", "nulldef"}
      [] type = "procedure" -> {"none", "parameters", "definition", "nodef"}
      [] type = "function" -> {"none", "parameters", "return_type", "noret",
                               "definition", "nodef", "emptydef"}
      [] OTHER -> {"none"}

\* the answers the queries of one document() call get under a fault
Answers(name, fault) ==
    [columns |-> IF fault = "columns" THEN QueryError ELSE Rows(ColumnRows(name)),
     indexes |-> IF fault = "indexes" THEN QueryError ELSE Rows(IndexRows(name)),
     foreign_keys |-> IF fault = "foreign_keys" THEN QueryError
                      ELSE Rows(ForeignKeyRows(name)),
     parameters |-> IF fault = "parameters" THEN QueryError
                    ELSE Rows(ParameterRows(name)),
     return_type |-> IF fault = "return_type" THEN QueryError
                     ELSE IF fault = "noret" THEN Rows(<<>>)
                     ELSE Rows(ReturnTypeRows(name)),
     definition |-> IF fault = "definition" THEN QueryError
                    ELSE IF fault = "nodef" THEN Rows(<<>>)
                    ELSE IF fault = "nulldef" THEN Rows(<< <<None>> >>)
                    ELSE IF fault = "emptydef" THEN Rows(<< <<Some("")>> >>)
                    ELSE Rows(DefinitionRows(name))]

-----------------------------------------------------------------------------
(* The Object Documenter: services/db_object_documenter.py and variants     *)

\* a _get_definition that answers a placeholder text when there is no row
GetDefinition_Placeholder(ans) ==
    IF ans.raises THEN None
    ELSE IF TruthyList(ans.rows) THEN ans.rows[1][1] ELSE Some("-- none")

\* DatabaseObjectDocumenter._get_definition: None when the query raises,
\* yields no row, or yields a NULL
GetDefinition(ans) ==
    IF ans.raises THEN None
    ELSE IF TruthyList(ans.rows) THEN ans.rows[1][1] ELSE None

\* DatabaseObjectDocumenter._format_type_info
FormatTypeInfo(type_info) ==
    IF type_info.max_length # -1
    THEN type_info.data_type \o "(" \o ToString(type_info.max_length) \o ")"
    ELSE IF TruthyInt(type_info.precision)
    THEN type_info.data_type \o "(" \o ToString(type_info.precision[1])
            \o (IF TruthyInt(type_info.scale)
                THEN "," \o ToString(type_info.scale[1]) ELSE "")
            \o ")"
    ELSE type_info.data_type

\* the supported tags of _get_llm_analysis
AnalysisMethods == {"table", "view", "procedure", "function"}

\* DatabaseObjectDocumenter._get_llm_analysis: the narrative, or None for an
\* unsupported tag or a gateway that raises
GetLlmAnalysis(reply, obj_type) ==
    IF obj_type \notin AnalysisMethods THEN None
    ELSE IF reply.raises THEN None
    ELSE reply.text

\* the separator of the Analysis section
AnalysisSeparator == "\n\nAnalysis:\n"

\* if analysis: doc += f"\n\nAnalysis:\n{analysis}"
AppendAnalysis(doc, analysis) ==
    IF TruthyStr(analysis) THEN doc \o AnalysisSeparator \o analysis[1] ELSE doc

\* a store step that files every object under the table tag
StoreDocumentation_AsTable(st, schema, name, content, metadata, obj_type, fault) ==
    AddDocumentation(st, schema, name, "table", content, metadata, fault)

\* DatabaseObjectDocumenter._store_documentation
StoreDocumentation(st, schema, name, content, metadata, obj_type, fault) ==
    AddDocumentation(st, schema, name, obj_type, content, metadata, fault)

\* document() raises before the gateway was asked
DocFail(st, msg) ==
    [ok |-> FALSE, error |-> msg, store |-> st,
     asked |-> FALSE, analysis |-> None, content |-> ""]

\* document() ends with the result r of its store step
DocEnd(r, analysis, content) ==
    [ok |-> r.ok, error |-> r.error, store |-> r.store,
     asked |-> TRUE, analysis |-> analysis, content |-> content]

QueryFailed == "Query execution failed"

RECURSIVE ColumnLines(_, _)
\* the loop over the columns of a table or a view, from the i-th on
ColumnLines(columns, i) ==
    IF i > Len(columns) THEN ""
    ELSE LET col == columns[i]
         IN "\n" \o col.column_name \o " (" \o FormatTypeInfo(col) \o ")"
            \o (IF ~col.is_nullable THEN " NOT NULL" ELSE "")
            \o (IF TruthyStr(col.description)
                THEN "\n  Description: " \o col.description[1] ELSE "")
            \o ColumnLines(columns, i + 1)

RECURSIVE IndexLines(_, _)
IndexLines(indexes, i) ==
    IF i > Len(indexes) THEN ""
    ELSE LET idx == indexes[i]
         IN "\n" \o idx.index_name \o " (" \o idx.type_desc \o ")"
            \o (IF idx.is_unique THEN " UNIQUE" ELSE "")
            \o "\n  Columns: " \o idx.columns
            \o IndexLines(indexes, i + 1)

RECURSIVE ForeignKeyLines(_, _)
ForeignKeyLines(fks, i) ==
    IF i > Len(fks) THEN ""
    ELSE LET fk == fks[i]
         IN "\n" \o fk.fk_name
            \o "\n  References: " \o fk.referenced_schema \o "." \o fk.referenced_table
            \o "\n  Columns: " \o fk.columns \o " -> " \o fk.referenced_columns
            \o ForeignKeyLines(fks, i + 1)

\* the text TableDocumenter.document renders before the analysis
TableDoc(schema, name, columns, indexes, foreign_keys) ==
    "Table: " \o schema \o "." \o name \o "\n\nColumns:\n"
    \o ColumnLines(columns, 1)
    \o (IF TruthyList(indexes)
        THEN "\n\nIndexes:\n" \o IndexLines(indexes, 1) ELSE "")
    \o (IF TruthyList(foreign_keys)
        THEN "\n\nForeign Keys:\n" \o ForeignKeyLines(foreign_keys, 1) ELSE "")

\* TableDocumenter.document
TableDocument(st, schema, name, q, reply, fault) ==
    IF q.columns.raises \/ q.indexes.raises \/ q.foreign_keys.raises
    THEN DocFail(st, QueryFailed)
    ELSE LET columns == q.columns.rows
             indexes == q.indexes.rows
             foreign_keys == q.foreign_keys.rows
             doc == TableDoc(schema, name, columns, indexes, foreign_keys)
             analysis == GetLlmAnalysis(reply, "table")
             content == AppendAnalysis(doc, analysis)
         IN DocEnd(StoreDocumentation(st, schema, name, content,
                       [column_count |-> Len(columns),
                        has_indexes |-> TruthyList(indexes),
                        has_foreign_keys |-> TruthyList(foreign_keys)],
                       "table", fault),
                   analysis, content)

\* the text ViewDocumenter.document renders before the analysis
ViewDoc(schema, name, columns, definition) ==
    "View: " \o schema \o "." \o name \o "\n\nColumns:\n"
    \o ColumnLines(columns, 1)
    \o "\n\nDefinition:\n" \o definition

\* ViewDocumenter.document
ViewDocument(st, schema, name, q, reply, fault) ==
    IF q.columns.raises THEN DocFail(st, QueryFailed)
    ELSE LET columns == q.columns.rows
             definition == GetDefinition(q.definition)
         IN IF ~TruthyStr(definition)
            THEN DocFail(st, "Could not retrieve definition for view "
                             \o schema \o "." \o name)
            ELSE LET doc == ViewDoc(schema, name, columns, definition[1])
                     analysis == GetLlmAnalysis(reply, "view")
                     content == AppendAnalysis(doc, analysis)
                 IN DocEnd(StoreDocumentation(st, schema, name, content,
                               [column_count |-> Len(columns),
                                definition_length |-> Len(definition[1])],
                               "view", fault),
                           analysis, content)

RECURSIVE ProcedureParamLines(_, _)
ProcedureParamLines(parameters, i) ==
    IF i > Len(parameters) THEN ""
    ELSE LET param == parameters[i]
         IN "\n" \o param.param_name \o " (" \o FormatTypeInfo(param) \o ")"
            \o (IF param.is_output THEN " OUTPUT" ELSE "")
            \o (IF TruthyStr(param.description)
                THEN "\n  Description: " \o param.description[1] ELSE "")
            \o ProcedureParamLines(parameters, i + 1)

\* the text ProcedureDocumenter.document renders before the analysis
ProcedureDoc(schema, name, parameters, definition) ==
    "Stored Procedure: " \o schema \o "." \o name \o "\n"
    \o (IF TruthyList(parameters)
        THEN "\nParameters:\n" \o ProcedureParamLines(parameters, 1) ELSE "")
    \o "\n\nDefinition:\n" \o definition

\* ProcedureDocumenter.document
ProcedureDocument(st, schema, name, q, reply, fault) ==
    IF q.parameters.raises THEN DocFail(st, QueryFailed)
    ELSE LET parameters == q.parameters.rows
             definition == GetDefinition(q.definition)
         IN IF ~TruthyStr(definition)
            THEN DocFail(st, "Could not retrieve definition for procedure "
                             \o schema \o "." \o name)
            ELSE LET doc == ProcedureDoc(schema, name, parameters, definition[1])
                     analysis == GetLlmAnalysis(reply, "procedure")
                     content == AppendAnalysis(doc, analysis)
                 IN DocEnd(StoreDocumentation(st, schema, name, content,
                               [parameter_count |-> Len(parameters),
                                definition_length |-> Len(definition[1])],
                               "procedure", fault),
                           analysis, content)

RECURSIVE FunctionParamLines(_, _)
FunctionParamLines(parameters, i) ==
    IF i > Len(parameters) THEN ""
    ELSE LET param == parameters[i]
         IN "\n" \o param.param_name \o " (" \o FormatTypeInfo(param) \o ")"
            \o (IF TruthyStr(param.description)
                THEN "\n  Description: " \o param.description[1] ELSE "")
            \o FunctionParamLines(parameters, i + 1)

\* the return type as FunctionDocumenter.document renders it
ReturnTypeText(return_type) ==
    return_type.return_type
    \o (IF return_type.max_length # -1
        THEN "(" \o ToString(return_type.max_length) \o ")"
        ELSE IF TruthyInt(return_type.precision)
        THEN "(" \o ToString(return_type.precision[1])
             \o (IF TruthyInt(return_type.scale)
                 THEN "," \o ToString(return_type.scale[1]) ELSE "")
             \o ")"
        ELSE "")

\* the text FunctionDocumenter.document renders before the analysis
FunctionDoc(schema, name, return_type, parameters, definition) ==
    "Function: " \o schema \o "." \o name \o "\n"
    \o "\nReturns: " \o ReturnTypeText(return_type)
    \o (IF TruthyList(parameters)
        THEN "\n\nParameters:\n" \o FunctionParamLines(parameters, 1) ELSE "")
    \o "\n\nDefinition:\n" \o definition

\* FunctionDocumenter.document
FunctionDocument(st, schema, name, q, reply, fault) ==
    IF q.parameters.raises \/ q.return_type.raises THEN DocFail(st, QueryFailed)
    ELSE IF ~TruthyList(q.return_type.rows)
    THEN DocFail(st, "Could not retrieve return type for function "
                     \o schema \o "." \o name)
    ELSE LET parameters == q.parameters.rows
             return_type == q.return_type.rows[1]
             definition == GetDefinition(q.definition)
         IN IF ~TruthyStr(definition)
            THEN DocFail(st, "Could not retrieve definition for function "
                             \o schema \o "." \o name)
            ELSE LET doc == FunctionDoc(schema, name, return_type, parameters,
                                        definition[1])
                     analysis == GetLlmAnalysis(reply, "function")
                     content == AppendAnalysis(doc, analysis)
                 IN DocEnd(StoreDocumentation(st, schema, name, content,
                               [parameter_count |-> Len(parameters),
                                definition_length |-> Len(definition[1]),
                                return_type |-> return_type.return_type],
                               "function", fault),
                           analysis, content)

\* documenters[obj["type"]](...).document()
Document(st, obj, q, reply, fault) ==
    CASE obj.type = "table" ->
            TableDocument(st, obj.schema_name, obj.name, q, reply, fault)
      [] obj.type = "view" ->
            ViewDocument(st, obj.schema_name, obj.name, q, reply, fault)
      [] obj.type = "procedure" ->
            ProcedureDocument(st, obj.schema_name, obj.name, q, reply, fault)
      [] obj.type = "function" ->
            FunctionDocument(st, obj.schema_name, obj.name, q, reply, fault)

-----------------------------------------------------------------------------
(* The Batch Orchestrator: services/documenter.py                           *)

\* the progress dictionary of __init__ and reset_progress
InitialProgress ==
    [current |-> 0, total |-> 0, current_object |-> "", phase |-> "Not Started",
     start_time |-> None, estimated_time_remaining |-> None, cost |-> 0,
     usage |-> [input_tokens |-> 0, output_tokens |-> 0, total_tokens |-> 0]]

\* DatabaseDocumenter.reset_progress
ResetProgress == InitialProgress

\* document_batch up to its first await: reset, start_time, Initializing
ProgressBegin(t) ==
    [ResetProgress EXCEPT !.start_time = Some(t), !.phase = "Initializing"]

\* total = len(objects); phase = "Processing"
ProgressDiscovered(prog, n) ==
    [prog EXCEPT !.total = n, !.phase = "Processing"]

\* progress["current_object"] = f"{obj['schema_name']}.{obj['name']}"
ProgressCurrentObject(prog, obj) ==
    [prog EXCEPT !.current_object = obj.schema_name \o "." \o obj.name]

\* Python floats are IEEE 754 binary64 numbers: 53 significant bits
MantissaBits == 53

\* F of the value of e, with e worked out once
With(e, F(_)) == CHOOSE r \in {F(v) : v \in {e}} : TRUE

\* the digits below are worked out a few at a time
DigitsAtOnce(n) == IF n < 8 THEN n ELSE 8

RECURSIVE IntBits(_)
\* the binary digits of a natural number, the most significant first
IntBits(i) == IF i = 0 THEN <<>> ELSE Append(IntBits(i \div 2), i % 2)

\* the last k binary digits of a natural number below 2^k
Digits(i, k) ==
    With(IntBits(i), LAMBDA b :
        [j \in 1..k |-> IF j <= k - Len(b) THEN 0 ELSE b[j - (k - Len(b))]])

RECURSIVE BitsValue(_, _, _)
\* the natural number of the binary digits bits[lo..hi]
BitsValue(bits, lo, hi) ==
    IF hi < lo THEN 0 ELSE 2 * BitsValue(bits, lo, hi - 1) + bits[hi]

RECURSIVE FracBits(_, _, _)
\* the next n binary digits of rem / c behind the point, and what is left
FracBits(rem, c, n) ==
    IF n = 0 THEN [bits |-> <<>>, rem |-> rem]
    ELSE With(<<DigitsAtOnce(n), rem * 2^DigitsAtOnce(n)>>, LAMBDA kd :
            With(FracBits(kd[2] % c, c, n - kd[1]), LAMBDA rest :
                [bits |-> Digits(kd[2] \div c, kd[1]) \o rest.bits,
                 rem |-> rest.rem]))

RECURSIVE SkipZeros(_, _, _)
\* the zeros behind the point before the first 1 of rem / c (0 < rem < c)
SkipZeros(rem, c, z) ==
    IF 2 * rem >= c THEN [rem |-> rem, zeros |-> z]
    ELSE SkipZeros(2 * rem, c, z + 1)

\* bits + 1; a carry out of the first digit makes the result one digit longer
Increment(bits) ==
    With({i \in 1..Len(bits) : bits[i] = 0}, LAMBDA zeros :
        IF zeros = {} THEN <<1>> \o [i \in 1..Len(bits) |-> 0]
        ELSE With(CHOOSE i \in zeros : \A j \in zeros : j <= i, LAMBDA z :
                [i \in 1..Len(bits) |->
                    IF i < z THEN bits[i] ELSE IF i = z THEN 1 ELSE 0]))

\* round to nearest, ties to even: the digits `bits` (the first one is 1 and
\* weighs 2^exp), followed by something not zero when `sticky`, as a float
\* [m, exp] of MantissaBits digits
RoundFloat(bits, exp, sticky) ==
    IF ~ /\ bits[MantissaBits + 1] = 1
         /\ \/ sticky
            \/ \E i \in (MantissaBits + 2)..Len(bits) : bits[i] = 1
            \/ bits[MantissaBits] = 1
    THEN [m |-> SubSeq(bits, 1, MantissaBits), exp |-> exp]
    ELSE With(Increment(SubSeq(bits, 1, MantissaBits)), LAMBDA inc :
            IF Len(inc) > MantissaBits
            THEN [m |-> SubSeq(inc, 1, MantissaBits), exp |-> exp + 1]
            ELSE [m |-> inc, exp |-> exp])

\* the float e / c of two whole numbers e > 0 and c > 0
FloatDiv(e, c) ==
    With(IntBits(e \div c), LAMBDA ib :
        IF ib # <<>>
        THEN With(FracBits(e % c, c, MantissaBits + 1 - Len(ib)), LAMBDA f :
                With(ib \o f.bits, LAMBDA bits :
                    RoundFloat(bits, Len(ib) - 1, f.rem # 0)))
        ELSE With(SkipZeros(e % c, c, 0), LAMBDA sk :
                With(FracBits(sk.rem, c, MantissaBits + 1), LAMBDA f :
                    RoundFloat(f.bits, -(sk.zeros + 1), f.rem # 0))))

RECURSIVE MulBits(_, _, _, _)
\* the digits of r * (the number m[1..i]) + carry, the most significant first
MulBits(r, m, i, carry) ==
    IF i = 0 THEN IntBits(carry)
    ELSE With(DigitsAtOnce(i), LAMBDA k :
            With(r * BitsValue(m, i - k + 1, i) + carry, LAMBDA d :
                MulBits(r, m, i - k, d \div 2^k) \o Digits(d % 2^k, k)))

\* the digits of a natural number without the zeros in front
Significant(bits) ==
    With({i \in 1..Len(bits) : bits[i] = 1}, LAMBDA ones :
        SubSeq(bits, CHOOSE i \in ones : \A j \in ones : i <= j, Len(bits)))

\* the float r * q of a whole number r > 0 and a float q
FloatMulInt(r, q) ==
    With(MulBits(r, q.m, MantissaBits, 0), LAMBDA product :
        With(Append(Significant(product), 0), LAMBDA bits :
            RoundFloat(bits, q.exp + Len(bits) - 1 - MantissaBits, FALSE)))

\* int(q) of a float q >= 0 below 2^MantissaBits
IntOfFloat(q) ==
    IF q.exp < 0 THEN 0 ELSE BitsValue(q.m, 1, q.exp + 1)

\* int(remaining * (elapsed_time / current)) for remaining > 0
EstimateOf(remaining, current, elapsed_time) ==
    With(FloatDiv(elapsed_time, current), LAMBDA avg_time_per_object :
        With(FloatMulInt(remaining, avg_time_per_object), LAMBDA product :
            IntOfFloat(product)))

\* int(objects_remaining * avg_time_per_object) with
\* avg_time_per_object = elapsed_time / current, on whole seconds: the
\* quotient and the product are rounded as floats, int() cuts towards zero
EstimatedTimeRemaining(total, current, elapsed_time) ==
    With(<<total - current, current, elapsed_time>>, LAMBDA v :
        IF v[1] = 0 \/ v[3] = 0 THEN 0
        ELSE IF v[1] > 0 THEN EstimateOf(v[1], v[2], v[3])
        ELSE 0 - EstimateOf(0 - v[1], v[2], v[3]))

\* after a document() that returned: current += 1 and, once current > 1, the
\* estimate
ProgressDocumented(prog, elapsed_time) ==
    LET current == prog.current + 1
    IN [prog EXCEPT !.current = current,
                    !.estimated_time_remaining =
                        IF current > 1
                        THEN Some(EstimatedTimeRemaining(prog.total, current,
                                                         elapsed_time))
                        ELSE @]

\* the except clause of document_batch
ProgressFailed(prog) == [prog EXCEPT !.phase = "Failed"]

\* the last statement of the try block of document_batch
ProgressComplete(prog) == [prog EXCEPT !.phase = "Complete"]

\* the keys of the documenters dictionary of document_batch
Documenters == {"table", "view", "procedure", "function"}

\* objects[i:i + batch_size], as indices from 1
Slice(i, batch_size, n) ==
    LET stop == IF i + batch_size < n THEN i + batch_size ELSE n
    IN [k \in 1..(stop - i) |-> i + k]

RECURSIVE ChunksFrom(_, _, _)
\* for i in range(i, n, batch_size): for obj in objects[i:i + batch_size]
ChunksFrom(i, n, batch_size) ==
    IF i >= n THEN <<>>
    ELSE Slice(i, batch_size, n) \o ChunksFrom(i + batch_size, n, batch_size)

\* the indices the nested loops of document_batch visit, in order; a
\* negative step makes range(0, n, step) empty (a step of 0 raises)
VisitOrder(n, batch_size) ==
    IF batch_size < 0 THEN <<>> ELSE ChunksFrom(0, n, batch_size)

\* the providers generate_response knows
Providers == {"anthropic", "ollama"}

\* the arguments a batch request may carry (batch_size defaults to 50)
RequestArgs ==
    { [batch_size |-> 50, include_llm_analysis |-> TRUE],
      [batch_size |-> 1, include_llm_analysis |-> FALSE],
      [batch_size |-> 2, include_llm_analysis |-> TRUE],
      [batch_size |-> 0, include_llm_analysis |-> TRUE],
      [batch_size |-> -1, include_llm_analysis |-> TRUE] }

\* the seconds that may pass while one object is documented
Ticks == {0, 1}

NoObj == [schema_name |-> "", name |-> "", type |-> ""]

\* the entries of a task that was not created: no arguments, and no object
\* whose document() waits for the gateway (obj, the fault its queries were
\* answered under and their answers q)
NoCall == [obj |-> NoObj, fault |-> "none", q |-> Answers("", "none")]

NoArgs == [batch_size |-> 0, include_llm_analysis |-> FALSE] @@ NoCall

\* the document_batch tasks of a run, in the order of their requests
Tasks == 1..MaxTasks

\* the position of a task that was not created
NoTask == "none"

\* the task is executing on the event loop (not waiting, not finished)
Running(t) == pc[t] \in {"init", "proc"}

\* no coroutine holds the event loop: a request handler or a waiting task
\* can be scheduled
LoopFree == \A t \in Tasks : ~Running(t)

\* the task is between its reset (line 81) and its Complete / Failed write
InBatch(t) == pc[t] \in {"init", "proc", "await"}

\* the record of a step: its operation, the task that took it, whether it
\* returned (ok) or raised, and the inputs and outputs the properties speak of
NoLast ==
    [op |-> "none", task |-> 0, ok |-> TRUE, error |-> "", raised |-> FALSE,
     obj |-> NoObj, n |-> 0, asked |-> FALSE, gateway |-> "", content |-> "",
     metadata |-> [rev |-> 0], replaced |-> FALSE,
     failAt |-> 0, recFailAt |-> 0, original |-> "", cleanup |-> "",
     recovered |-> FALSE, limit |-> 0, query |-> 0, results |-> <<>>,
     summary |-> "", intent |-> <<>>, fault |-> ""]

\* whether the gateway gave a narrative: not when it raised, returned None
\* or returned the empty string
GatewayKind(reply) ==
    IF ~reply.raises /\ TruthyStr(reply.text) THEN "narrative" ELSE "unavailable"

\* a loop that logs a failed document() and goes on with the next object
AfterDocument_SkipFailed(prog, rest, d, elapsed_time) ==
    IF d.ok
    THEN [progress |-> ProgressDocumented(prog, elapsed_time),
          pc |-> "proc", todo |-> rest, raised |-> FALSE]
    ELSE [progress |-> prog, pc |-> "proc", todo |-> rest, raised |-> FALSE]

\* a loop that calls document() on the same object again after a failure
AfterDocument_Retry(prog, rest, d, elapsed_time) ==
    IF d.ok
    THEN [progress |-> ProgressDocumented(prog, elapsed_time),
          pc |-> "proc", todo |-> rest, raised |-> FALSE]
    ELSE [progress |-> prog, pc |-> "proc", todo |-> <<0>> \o rest,
          raised |-> FALSE]

\* the state document_batch is left in after one object's document() call d
AfterDocument(prog, rest, d, elapsed_time) ==
    IF d.ok
    THEN [progress |-> ProgressDocumented(prog, elapsed_time),
          pc |-> "proc", todo |-> rest, raised |-> FALSE]
    ELSE [progress |-> ProgressFailed(prog), pc |-> "done", todo |-> <<>>,
          raised |-> TRUE]

\* the message of datetime.now() - None
StartTimeError ==
    "unsupported operand type(s) for -: 'datetime.datetime' and 'NoneType'"

\* lines 121-129 and the except clause at the time `clock`: start_time is
\* None after a reset_progress that no line 82 has followed yet, and then
\* line 126 raises once current, already incremented, exceeds 1
DocumentReturned(prog, rest, d, clock) ==
    IF d.ok /\ prog.current + 1 > 1 /\ prog.start_time = None
    THEN [progress |-> ProgressFailed([prog EXCEPT !.current = @ + 1]),
          pc |-> "done", todo |-> <<>>, raised |-> TRUE,
          error |-> StartTimeError]
    ELSE AfterDocument(prog, rest, d,
                       IF prog.start_time = None THEN 0
                       ELSE clock - prog.start_time[1])
         @@ [error |-> d.error]

\* no dictionary was returned yet. `shared` tells that value.usage is the
\* very dictionary progress.usage is: dict.copy() copies one level only
NoSnap == [taken |-> FALSE, value |-> InitialProgress, shared |-> FALSE]

\* reset_progress binds self.progress to new dictionaries: a dictionary
\* returned before shares nothing with them
AfterReset(sn) == [sn EXCEPT !.shared = FALSE]

-----------------------------------------------------------------------------
(* The state after construction: no batch was requested                     *)

Init ==
    /\ provider \in Providers
    /\ db \in Databases
    /\ store = EmptyStore
    /\ progress = InitialProgress
    /\ pc = [t \in Tasks |-> NoTask]
    /\ args = [t \in Tasks |-> NoArgs]
    /\ todo = [t \in Tasks |-> <<>>]
    /\ now = 0
    /\ last = NoLast
    /\ snap = NoSnap

-----------------------------------------------------------------------------
(* The requests and the steps of the document_batch tasks. The event loop   *)
(* runs one coroutine at a time: a request is handled, and a task is        *)
(* started or resumed, while no task is executing. document_batch gives the *)
(* loop back only where it really waits, which is the call of the gateway   *)
(* with the ollama provider (the queries, the anthropic call and the upsert *)
(* are blocking calls inside the coroutine). All tasks write the one        *)
(* progress dictionary of the orchestrator. The rows of the discovered list *)
(* are drawn when the loop reads them.                                      *)

\* routes.process_batch with one of the given arguments: nothing tells
\* whether a batch is alive; the progress is reset and one more task is
\* created
ProcessBatch(requests) ==
    /\ LoopFree
    /\ \E t \in Tasks, r \in requests :
          /\ pc[t] = NoTask
          /\ \A u \in Tasks : u < t => pc[u] # NoTask
          /\ pc' = [pc EXCEPT ![t] = "spawned"]
          /\ args' = [args EXCEPT ![t] = r @@ NoCall]
          /\ last' = [NoLast EXCEPT !.op = "process_batch", !.task = t]
    /\ progress' = ResetProgress
    /\ snap' = AfterReset(snap)
    /\ UNCHANGED <<provider, db, store, todo, now>>

\* document_batch, lines 80-83, of a task the loop starts
BatchBegin(t) ==
    /\ LoopFree
    /\ pc[t] = "spawned"
    /\ progress' = ProgressBegin(now)
    /\ pc' = [pc EXCEPT ![t] = "init"]
    /\ last' = [NoLast EXCEPT !.op = "begin", !.task = t]
    /\ snap' = AfterReset(snap)
    /\ UNCHANGED <<provider, db, store, args, todo, now>>

\* document_batch, lines 86-88: the discovery returns a list of n objects
DiscoverReturns(t) ==
    /\ pc[t] = "init"
    /\ \E n \in 0..MaxObjects :
          /\ progress' = ProgressDiscovered(progress, n)
          /\ todo' = [todo EXCEPT ![t] =
                         IF args[t].batch_size = 0 THEN <<>>
                         ELSE VisitOrder(n, args[t].batch_size)]
          /\ last' = [NoLast EXCEPT !.op = "discover", !.task = t, !.n = n]
    /\ pc' = [pc EXCEPT ![t] = "proc"]
    /\ UNCHANGED <<provider, db, store, args, now, snap>>

\* document_batch, line 86 and the except clause: the discovery raises
DiscoverRaises(t) ==
    /\ pc[t] = "init"
    /\ progress' = ProgressFailed(progress)
    /\ pc' = [pc EXCEPT ![t] = "done"]
    /\ last' = [NoLast EXCEPT !.op = "discover", !.task = t, !.ok = FALSE,
                              !.raised = TRUE,
                              !.error = "Error getting database objects"]
    /\ UNCHANGED <<provider, db, store, args, todo, now, snap>>

\* document_batch, line 99 and the except clause: range() with a step of 0
RangeRaises(t) ==
    /\ pc[t] = "proc"
    /\ args[t].batch_size = 0
    /\ progress' = ProgressFailed(progress)
    /\ pc' = [pc EXCEPT ![t] = "done"]
    /\ todo' = [todo EXCEPT ![t] = <<>>]
    /\ last' = [NoLast EXCEPT !.op = "range", !.task = t, !.ok = FALSE,
                              !.raised = TRUE,
                              !.error = "range() arg 3 must not be zero"]
    /\ UNCHANGED <<provider, db, store, args, now, snap>>

\* the loops of the task have an object to visit
Visiting(t) ==
    /\ pc[t] = "proc"
    /\ args[t].batch_size # 0
    /\ todo[t] # <<>>

\* document_batch, lines 103-108: an object whose type has no documenter
ObjectSkipped(t) ==
    /\ Visiting(t)
    /\ \E obj \in db :
          /\ obj.type \notin Documenters
          /\ progress' = ProgressCurrentObject(progress, obj)
          /\ last' = [NoLast EXCEPT !.op = "skip", !.task = t, !.obj = obj]
    /\ todo' = [todo EXCEPT ![t] = Tail(@)]
    /\ UNCHANGED <<provider, db, store, pc, args, now, snap>>

\* the inputs of one document() call: the fault of its queries, the reply of
\* the gateway and whether the upsert fails. The variant decides which of
\* them it reads: a table has no definition query, so its call goes on to
\* the gateway and the upsert whatever that query would yield
DocInputs(type) ==
    {[fault |-> x, reply |-> r, storeFault |-> f] :
        x \in DocFaults(type), r \in Replies, f \in BOOLEAN}

\* the queries of document(), answered under the fault, let the call reach
\* _get_llm_analysis
AsksGateway(obj, fault) ==
    Document(store, obj, Answers(obj.name, fault),
             [raises |-> TRUE, text |-> None], FALSE).asked

\* what one document() call that ended leaves: the index, the progress, the
\* position of the task and the record of the step
DocumentEnds(t, obj, d, a, fault, reply, tick) ==
    /\ store' = d.store
    /\ now' = now + tick
    /\ progress' = a.progress
    /\ pc' = [pc EXCEPT ![t] = a.pc]
    /\ todo' = [todo EXCEPT ![t] = a.todo]
    /\ args' = [args EXCEPT ![t] = NoCall @@ @]
    /\ last' = [NoLast EXCEPT !.op = "document", !.task = t, !.ok = d.ok,
                   !.error = a.error, !.raised = a.raised, !.obj = obj,
                   !.asked = d.asked, !.content = d.content, !.fault = fault,
                   !.gateway = IF d.asked THEN GatewayKind(reply) ELSE ""]
    /\ UNCHANGED <<provider, db, snap>>

\* document_batch, lines 103-129 and the except clause, where document()
\* does not wait: one object is documented, or its document() raises and
\* ends the batch. The call of the anthropic provider blocks; with the
\* ollama provider only a call that raises before it asks the gateway
\* comes here
ObjectDocumented(t, ticks) ==
    /\ Visiting(t)
    /\ \E obj \in db, tick \in ticks :
          /\ obj.type \in Documenters
          /\ \E in \in DocInputs(obj.type) :
             \E d \in {Document(store, obj, Answers(obj.name, in.fault),
                                in.reply, in.storeFault)} :
             \E a \in {DocumentReturned(ProgressCurrentObject(progress, obj),
                                        Tail(todo[t]), d, now + tick)} :
                /\ provider = "ollama" => ~d.asked
                /\ DocumentEnds(t, obj, d, a, in.fault, in.reply, tick)

\* document_batch, lines 103-120, with the ollama provider: the queries of
\* document() answered, and the task waits for the gateway
DocumentAwaits(t) ==
    /\ provider = "ollama"
    /\ Visiting(t)
    /\ \E obj \in db :
          /\ obj.type \in Documenters
          /\ \E fault \in DocFaults(obj.type) :
                /\ AsksGateway(obj, fault)
                /\ args' = [args EXCEPT ![t].obj = obj, ![t].fault = fault,
                                        ![t].q = Answers(obj.name, fault)]
                /\ last' = [NoLast EXCEPT !.op = "await", !.task = t,
                                          !.obj = obj, !.fault = fault]
          /\ progress' = ProgressCurrentObject(progress, obj)
    /\ pc' = [pc EXCEPT ![t] = "await"]
    /\ UNCHANGED <<provider, db, store, todo, now, snap>>

\* the gateway answers a waiting task: the rest of document() (the analysis
\* and the upsert), then lines 121-129 of document_batch or its except clause
DocumentResumes(t, ticks) ==
    /\ LoopFree
    /\ pc[t] = "await"
    /\ \E reply \in Replies, f \in BOOLEAN, tick \in ticks :
          \E obj \in {args[t].obj} :
          \E d \in {Document(store, obj, args[t].q, reply, f)} :
          \E a \in {DocumentReturned(progress, Tail(todo[t]), d, now + tick)} :
             DocumentEnds(t, obj, d, a, args[t].fault, reply, tick)

\* document_batch, line 131: the loops are exhausted
BatchComplete(t) ==
    /\ pc[t] = "proc"
    /\ args[t].batch_size # 0
    /\ todo[t] = <<>>
    /\ progress' = ProgressComplete(progress)
    /\ pc' = [pc EXCEPT ![t] = "done"]
    /\ last' = [NoLast EXCEPT !.op = "complete", !.task = t]
    /\ UNCHANGED <<provider, db, store, args, todo, now, snap>>

\* clear() makes calls 1..ResetCall; the cleanup makes one per partition
ClearFaults == 0..ResetCall

CleanupFaults == 0..Len(ObjTypeOrder)

\* routes.clear_vector_store -> DatabaseDocumenter.clear_documentation,
\* handled while no task is executing (before, after, or while tasks wait):
\* vector_store.clear(), then reset_progress() when clear() returned. The
\* calls of clear() and of its cleanup that fail are among those given
ClearVectorStore(failAts, recFailAts) ==
    /\ LoopFree
    /\ \E failAt \in failAts, recFailAt \in recFailAts :
          LET c == Clear(store, failAt, recFailAt)
          IN /\ store' = c.store
             /\ progress' = IF c.ok THEN ResetProgress ELSE progress
             /\ last' = [NoLast EXCEPT !.op = "clear", !.ok = c.ok,
                            !.error = c.error, !.failAt = failAt]
             /\ snap' = IF c.ok THEN AfterReset(snap) ELSE snap
    /\ UNCHANGED <<provider, db, pc, args, todo, now>>

\* the batch request of the runs with overlapping batches: the defaults of
\* the route
DefaultArgs == {r \in RequestArgs : r.batch_size = 50}

\* the time one object takes in those runs
WaitTicks == {1}

\* a clear() that returns, and one whose reset fails and whose cleanup works
ClearOutcomes == {0, ResetCall}

Next ==
    \/ ProcessBatch(DefaultArgs)
    \/ ClearVectorStore(ClearOutcomes, {0})
    \/ \E t \in Tasks : BatchBegin(t)
    \/ \E t \in Tasks : DiscoverReturns(t)
    \/ \E t \in Tasks : DiscoverRaises(t)
    \/ \E t \in Tasks : ObjectSkipped(t)
    \/ \E t \in Tasks : ObjectDocumented(t, WaitTicks)
    \/ \E t \in Tasks : DocumentAwaits(t)
    \/ \E t \in Tasks : DocumentResumes(t, WaitTicks)
    \/ \E t \in Tasks : BatchComplete(t)

Spec == Init /\ [][Next]_vars

\* the runs checked for termination leave the passing of time out: no step
\* of document_batch waits for the clock
NoTicks == {0}

\* the steps of one document_batch task
BatchStep(t) ==
    \/ BatchBegin(t)
    \/ DiscoverReturns(t)
    \/ DiscoverRaises(t)
    \/ ObjectSkipped(t)
    \/ ObjectDocumented(t, NoTicks)
    \/ DocumentAwaits(t)
    \/ DocumentResumes(t, NoTicks)
    \/ BatchComplete(t)

NextLive ==
    \/ ProcessBatch(DefaultArgs)
    \/ ClearVectorStore(ClearOutcomes, {0})
    \/ \E t \in Tasks : BatchStep(t)

\* the event loop runs every task it was given, and every query, gateway
\* call and upsert a task waits for returns or raises
SpecLive ==
    Init /\ [][NextLive]_vars /\ \A t \in Tasks : WF_vars(BatchStep(t))

\* the batches of the anthropic provider, whose tasks never wait, with
\* every argument a request may carry
NextArgs ==
    \/ ProcessBatch(RequestArgs)
    \/ \E t \in Tasks : BatchBegin(t)
    \/ \E t \in Tasks : DiscoverReturns(t)
    \/ \E t \in Tasks : DiscoverRaises(t)
    \/ \E t \in Tasks : RangeRaises(t)
    \/ \E t \in Tasks : ObjectSkipped(t)
    \/ \E t \in Tasks : ObjectDocumented(t, Ticks)
    \/ \E t \in Tasks : BatchComplete(t)

InitArgs == Init /\ provider = "anthropic"

SpecArgs == InitArgs /\ [][NextArgs]_vars

-----------------------------------------------------------------------------
(* The Document Index on its own: the methods of VectorStore called one     *)
(* after the other, with contents and metadata drawn from small sets.       *)

\* the tags add_documentation is called with: the first and the last
\* partition, and a tag that has none
StoreTypes == {"table", "function", OtherType}

\* the content and caller's metadata of an upsert
Versions ==
    { [content |-> "v1", metadata |-> [rev |-> 1]],
      [content |-> "v2", metadata |-> [rev |-> 2]] }

\* the records of a partition under an id
RecordsOf(st, obj_type, id) ==
    {d \in st[CollectionName(obj_type)].docs : d.id = id}

\* VectorStore.add_documentation
StoreAdd ==
    /\ \E schema \in Schemas, name \in Names, t \in StoreTypes,
          v \in Versions, fault \in BOOLEAN :
          LET r == AddDocumentation(store, schema, name, t, v.content,
                                    v.metadata, fault)
          IN /\ store' = r.store
             /\ last' = [NoLast EXCEPT !.op = "add", !.ok = r.ok,
                            !.error = r.error, !.obj = Ref(schema, name, t),
                            !.content = v.content, !.metadata = v.metadata,
                            !.replaced = /\ t \in ObjTypes
                                         /\ RecordsOf(store, t,
                                                DocId(schema, name)) # {}]
    /\ UNCHANGED <<provider, db, progress, pc, args, todo, now, snap>>

\* VectorStore.clear
StoreClear ==
    /\ \E failAt \in ClearFaults, recFailAt \in CleanupFaults :
          LET c == Clear(store, failAt, recFailAt)
          IN /\ store' = c.store
             /\ last' = [NoLast EXCEPT !.op = "clear", !.ok = c.ok,
                            !.error = c.error, !.failAt = failAt,
                            !.recFailAt = IF c.original = "" \/ c.recovered
                                          THEN 0 ELSE recFailAt,
                            !.original = c.original, !.cleanup = c.cleanup,
                            !.recovered = c.recovered]
    /\ UNCHANGED <<provider, db, progress, pc, args, todo, now, snap>>

NextStore == StoreAdd \/ StoreClear

\* VectorStore.__init__ alone: no catalog is attached and no batch is started
InitStore ==
    /\ provider = "anthropic"
    /\ db = {}
    /\ store = EmptyStore
    /\ progress = InitialProgress
    /\ pc = [t \in Tasks |-> NoTask]
    /\ args = [t \in Tasks |-> NoArgs]
    /\ todo = [t \in Tasks |-> <<>>]
    /\ now = 0
    /\ last = NoLast
    /\ snap = NoSnap

SpecStore == InitStore /\ [][NextStore]_vars

-----------------------------------------------------------------------------
(* VectorStore.search. The distance of a record to a query is given by the  *)
(* embedding; a query is one table of distances, in tenths.                 *)

\* the largest n_results of a search
MaxLimit == 3

Limits == 1..MaxLimit

\* the distances collection.query reports, per query, tag and id
DistanceTables ==
    << [table     |-> [a |-> 9, b |-> 7], view     |-> [a |-> 1, b |-> 5],
        procedure |-> [a |-> 3, b |-> 8], function |-> [a |-> 6, b |-> 2]],
       [table     |-> [a |-> 4, b |-> 4], view     |-> [a |-> 4, b |-> 0],
        procedure |-> [a |-> 2, b |-> 2], function |-> [a |-> 4, b |-> 9]] >>

Queries == DOMAIN DistanceTables

\* one entry of the results list of search
Hit(query, t, d) ==
    [id |-> d.id, content |-> d.content, metadata |-> d.metadata, type |-> t,
     distance |-> DistanceTables[query][t][d.metadata.name]]

RECURSIVE InsertByDistance(_, _)
\* list.sort(key=distance) is stable: x goes after the entries that are
\* not farther than x
InsertByDistance(sorted, x) ==
    IF sorted = <<>> THEN <<x>>
    ELSE IF Head(sorted).distance <= x.distance
         THEN <<Head(sorted)>> \o InsertByDistance(Tail(sorted), x)
         ELSE <<x>> \o sorted

RECURSIVE SortByDistance(_)
SortByDistance(hits) ==
    IF hits = <<>> THEN <<>>
    ELSE InsertByDistance(SortByDistance(SubSeq(hits, 1, Len(hits) - 1)),
                          hits[Len(hits)])

\* results[:n_results] for n_results >= 0
Truncate(hits, n_results) ==
    SubSeq(hits, 1, IF Len(hits) < n_results THEN Len(hits) ELSE n_results)

RECURSIVE HitsOf(_, _, _)
\* the records of a partition as hits, in the order the backend holds them
HitsOf(query, t, docs) ==
    IF docs = {} THEN <<>>
    ELSE LET d == CHOOSE x \in docs : TRUE
         IN <<Hit(query, t, d)>> \o HitsOf(query, t, docs \ {d})

\* chromadb: collection.query(query_texts=[query], n_results=n_results): the
\* n_results nearest records of the partition, nearest first
CollectionQuery(st, query, t, n_results) ==
    Truncate(SortByDistance(HitsOf(query, t, st[CollectionName(t)].docs)),
             n_results)

RECURSIVE SearchFrom(_, _, _, _, _)
\* the loop of VectorStore.search over self.collections.items()
SearchFrom(st, query, n_results, i, results) ==
    IF i > Len(ObjTypeOrder) THEN [ok |-> TRUE, error |-> "", results |-> results]
    ELSE LET t == ObjTypeOrder[i]
         IN IF ~HandleLive(st, t)
            THEN [ok |-> FALSE,
                  error |-> "Collection " \o CollectionName(t) \o " does not exist.",
                  results |-> <<>>]
            ELSE IF Count(st, t) > 0
            THEN SearchFrom(st, query, n_results, i + 1,
                            results \o CollectionQuery(st, query, t, n_results))
            ELSE SearchFrom(st, query, n_results, i + 1, results)

\* VectorStore.search
Search(st, query, n_results) ==
    LET r == SearchFrom(st, query, n_results, 1, <<>>)
    IN IF r.ok
       THEN [r EXCEPT !.results = Truncate(SortByDistance(r.results), n_results)]
       ELSE r

\* VectorStore.add_documentation, from the documenters
SearchAdd ==
    /\ \E schema \in Schemas, name \in Names, t \in ObjTypes :
          LET r == AddDocumentation(store, schema, name, t, "v1",
                                    [rev |-> 1], FALSE)
          IN /\ store' = r.store
             /\ last' = [NoLast EXCEPT !.op = "add", !.ok = r.ok,
                            !.error = r.error, !.obj = Ref(schema, name, t),
                            !.content = "v1", !.metadata = [rev |-> 1]]
    /\ UNCHANGED <<provider, db, progress, pc, args, todo, now, snap>>

\* VectorStore.clear, returning or failing at client.reset
SearchClear ==
    /\ \E failAt \in {0, ResetCall} :
          LET c == Clear(store, failAt, 0)
          IN /\ store' = c.store
             /\ last' = [NoLast EXCEPT !.op = "clear", !.ok = c.ok,
                            !.error = c.error, !.failAt = failAt,
                            !.original = c.original, !.cleanup = c.cleanup,
                            !.recovered = c.recovered]
    /\ UNCHANGED <<provider, db, progress, pc, args, todo, now, snap>>

\* VectorStore.search
StoreSearch ==
    /\ \E query \in Queries, limit \in Limits :
          LET r == Search(store, query, limit)
          IN last' = [NoLast EXCEPT !.op = "search", !.ok = r.ok,
                         !.error = r.error, !.query = query, !.limit = limit,
                         !.results = r.results]
    /\ UNCHANGED <<provider, db, store, progress, pc, args, todo, now, snap>>

NextSearch == SearchAdd \/ SearchClear \/ StoreSearch

SpecSearch == InitStore /\ [][NextSearch]_vars

-----------------------------------------------------------------------------
(* The documenter variants on their own: document() of the objects of a     *)
(* database, over the texts sys.sql_modules and the gateway can return.     *)

\* the definitions OBJECT_DEFINITION_QUERY can return for an object: any text
\* of the module, a comment that reads like the separator included
DefinitionTexts(name) ==
    { "SELECT " \o name,
      "SELECT 1 /*\n\nAnalysis:\nnone\n*/",
      "SELECT 2 /*\n\nAnalysis: none */" }

\* the texts the gateway can return: any text of the language model
NarrativeReplies ==
    { [raises |-> TRUE, text |-> None],
      [raises |-> FALSE, text |-> Some(Narrative)],
      [raises |-> FALSE, text |-> Some("Overview.\n\nAnalysis:\nDetails.")] }

\* the answers of the queries when the definition query returns `text`
AnswersWith(name, text) ==
    [Answers(name, "none") EXCEPT !.definition = Rows(<< <<Some(text)>> >>)]

\* what a document() call d of obj that ended leaves in the index and in
\* the record of the step
DocDocumentEnds(obj, d, reply) ==
    /\ store' = d.store
    /\ last' = [NoLast EXCEPT !.op = "document", !.ok = d.ok,
                   !.error = d.error, !.raised = ~d.ok,
                   !.obj = obj, !.asked = d.asked,
                   !.gateway = IF d.asked THEN GatewayKind(reply) ELSE "",
                   !.content = d.content]

\* document() of one object of the database, where it does not wait: the
\* anthropic provider, or a call that raises before it asks the gateway
DocDocument ==
    /\ \E obj \in db, reply \in NarrativeReplies, fault \in BOOLEAN :
        \E text \in DefinitionTexts(obj.name) :
          /\ obj.type \in Documenters
          /\ \E d \in {Document(store, obj, AnswersWith(obj.name, text),
                                 reply, fault)} :
                /\ provider = "ollama" => ~d.asked
                /\ DocDocumentEnds(obj, d, reply)
    /\ UNCHANGED <<provider, db, progress, pc, args, todo, now, snap>>

\* document() of one object with the ollama provider: its queries are
\* answered and the call waits for the gateway
DocDocumentAwaits(t) ==
    /\ provider = "ollama"
    /\ pc[t] = NoTask
    /\ \A u \in Tasks : u < t => pc[u] # NoTask
    /\ \E obj \in db :
        \E text \in DefinitionTexts(obj.name) :
        \E q \in {AnswersWith(obj.name, text)} :
          /\ obj.type \in Documenters
          /\ Document(store, obj, q, [raises |-> TRUE, text |-> None],
                      FALSE).asked
          /\ args' = [args EXCEPT ![t].obj = obj, ![t].q = q]
          /\ last' = [NoLast EXCEPT !.op = "await", !.task = t, !.obj = obj]
    /\ pc' = [pc EXCEPT ![t] = "await"]
    /\ UNCHANGED <<provider, db, store, progress, todo, now, snap>>

\* the gateway answers the waiting call: the analysis and the upsert
DocDocumentResumes(t) ==
    /\ pc[t] = "await"
    /\ \E reply \in NarrativeReplies, fault \in BOOLEAN :
        \E d \in {Document(store, args[t].obj, args[t].q, reply, fault)} :
          DocDocumentEnds(args[t].obj, d, reply)
    /\ pc' = [pc EXCEPT ![t] = NoTask]
    /\ args' = [args EXCEPT ![t] = NoArgs]
    /\ UNCHANGED <<provider, db, progress, todo, now, snap>>

\* the marker get_documentation_summary looks for
SummaryMarker == "\n\nAnalysis:"

\* DatabaseDocumenter.get_documentation_summary; `query` stands for the
\* distances of f"{schema}.{name} {obj_type}" to the records
GetDocumentationSummary(st, query, schema, name, obj_type) ==
    LET r == Search(st, query, 1)
    IN IF ~r.ok
       THEN [results |-> <<>>,
             summary |-> "Error generating summary: " \o r.error]
       ELSE IF r.results # <<>>
       THEN LET doc == r.results[1].content
                analysis_index == Find(doc, SummaryMarker)
            IN [results |-> r.results,
                summary |-> IF analysis_index > -1
                            THEN SubSeq(doc, 1, analysis_index) ELSE doc]
       ELSE [results |-> <<>>,
             summary |-> "No documentation found for " \o obj_type \o " "
                           \o schema \o "." \o name]

\* get_documentation_summary for one object of the database
DocSummary ==
    /\ \E obj \in db, query \in Queries :
          LET r == GetDocumentationSummary(store, query, obj.schema_name,
                                           obj.name, obj.type)
          IN last' = [NoLast EXCEPT !.op = "summary", !.obj = obj,
                         !.query = query, !.limit = 1,
                         !.results = r.results, !.summary = r.summary]
    /\ UNCHANGED <<provider, db, store, progress, pc, args, todo, now, snap>>

NextDoc ==
    \/ DocDocument
    \/ \E t \in Tasks : DocDocumentAwaits(t)
    \/ \E t \in Tasks : DocDocumentResumes(t)
    \/ DocSummary

SpecDoc == Init /\ [][NextDoc]_vars

-----------------------------------------------------------------------------
(* The read side of the Batch Orchestrator, next to a batch over objects    *)
(* that have no documenter: get_progress, what its caller does with the     *)
(* dictionary it got, and search_documentation.                             *)

\* DatabaseDocumenter.get_progress: self.progress.copy()
GetProgress ==
    /\ snap' = [taken |-> TRUE, value |-> progress, shared |-> TRUE]
    /\ last' = [NoLast EXCEPT !.op = "get_progress"]
    /\ UNCHANGED <<provider, db, store, progress, pc, args, todo, now>>

\* the values a caller writes into the dictionary it holds
EditedPhase == "Edited"

EditedTokens == 7

\* the caller assigns to a key of the returned dictionary
ModifySnapshotKey ==
    /\ snap.taken
    /\ snap' = [snap EXCEPT !.value.phase = EditedPhase]
    /\ last' = [NoLast EXCEPT !.op = "modify_key"]
    /\ UNCHANGED <<provider, db, store, progress, pc, args, todo, now>>

\* the caller assigns to a counter of the returned dictionary's "usage":
\* the dictionary assigned to is progress["usage"] itself while it is shared
ModifySnapshotUsage ==
    /\ snap.taken
    /\ snap' = [snap EXCEPT !.value.usage.total_tokens = EditedTokens]
    /\ progress' = IF snap.shared
                   THEN [progress EXCEPT !.usage.total_tokens = EditedTokens]
                   ELSE progress
    /\ last' = [NoLast EXCEPT !.op = "modify_usage"]
    /\ UNCHANGED <<provider, db, store, pc, args, todo, now>>

\* DatabaseDocumenter.search_documentation
SearchDocumentation ==
    /\ \E query \in Queries, limit \in Limits :
          LET r == Search(store, query, limit)
          IN last' = [NoLast EXCEPT !.op = "search", !.ok = r.ok,
                         !.error = r.error, !.query = query, !.limit = limit,
                         !.results = r.results]
    /\ UNCHANGED <<provider, db, store, progress, pc, args, todo, now, snap>>

NextRead ==
    \/ ProcessBatch(DefaultArgs)
    \/ \E t \in Tasks : BatchBegin(t)
    \/ \E t \in Tasks : DiscoverReturns(t)
    \/ \E t \in Tasks : DiscoverRaises(t)
    \/ \E t \in Tasks : ObjectSkipped(t)
    \/ \E t \in Tasks : BatchComplete(t)
    \/ GetProgress
    \/ ModifySnapshotKey
    \/ ModifySnapshotUsage
    \/ SearchDocumentation

SpecRead == Init /\ [][NextRead]_vars

-----------------------------------------------------------------------------
(* LLMClient.analyze_search_intent, over the replies of the provider        *)

\* str.rfind(sub): the highest index, from 0, at which sub occurs, or -1
RFind(s, sub) ==
    IF Occurrences(s, sub) = {} THEN -1
    ELSE (CHOOSE i \in Occurrences(s, sub) :
              \A j \in Occurrences(s, sub) : j <= i) - 1

\* response[start:end] for 0 <= start < end <= len(response)
Slice0(s, start, end) == SubSeq(s, start + 1, end)

\* the spans of the replies below that json.loads accepts, and their values
JsonValues ==
    [span \in {"{\"object_type\": \"table\"}", "{}"} |->
        IF span = "{}" THEN [object_type |-> "", parsed |-> "empty"]
        ELSE [object_type |-> "table", parsed |-> "object"]]

\* json.loads: the value, or JSONDecodeError
JsonLoads(span) ==
    IF span \in DOMAIN JsonValues
    THEN [raises |-> FALSE, value |-> JsonValues[span]]
    ELSE [raises |-> TRUE, value |-> <<>>]

\* the replies of generate_response: it raises, or returns a text
IntentReplies ==
    {[raises |-> TRUE, text |-> ""]} \cup
    { [raises |-> FALSE, text |-> pre \o body \o post] :
        pre \in {"", "Sure: ", "} "},
        body \in {"{\"object_type\": \"table\"}", "{}", "{not json}",
                  "{\"a\": 1} {\"b\": 2}", "{ open", "closed }", "none", ""},
        post \in {"", " ok", " {"} }

IntentQueries == {"list all tables", "orders"}

\* a default that drops the query of the caller
DefaultIntent_NoQuery(query) ==
    [object_type |-> "any", detail_level |-> "basic_info",
     include_fields |-> <<"schema", "name", "type">>,
     format_template |-> "{schema}.{name} ({type})",
     search_query |-> ""]

\* the default intent of analyze_search_intent
DefaultIntent(query) ==
    [object_type |-> "any", detail_level |-> "basic_info",
     include_fields |-> <<"schema", "name", "type">>,
     format_template |-> "{schema}.{name} ({type})",
     search_query |-> query]

\* lines 158-190: the prompt is an f-string whose example objects are read
\* as replacement fields; their format specs hold {schema} and {name}, names
\* that are not defined where the prompt is built, so building it raises
BuildIntentPrompt(query) ==
    [raises |-> TRUE, error |-> "name 'schema' is not defined"]

\* LLMClient.analyze_search_intent
AnalyzeSearchIntent(query, reply) ==
    LET prompt == BuildIntentPrompt(query)
    IN IF prompt.raises \/ reply.raises
       THEN [called |-> ~prompt.raises, intent |-> DefaultIntent(query)]
       ELSE LET response == reply.text
                start == Find(response, "{")
                end == RFind(response, "}") + 1
            IN IF start >= 0 /\ end > start
                  /\ ~JsonLoads(Slice0(response, start, end)).raises
               THEN [called |-> TRUE,
                     intent |-> JsonLoads(Slice0(response, start, end)).value]
               ELSE [called |-> TRUE, intent |-> DefaultIntent(query)]

\* one call of analyze_search_intent
AnalyzeIntent ==
    /\ \E query \in IntentQueries, reply \in IntentReplies :
          /\ args' = [query |-> query, reply |-> reply]
          /\ last' = [NoLast EXCEPT !.op = "intent",
                         !.intent = AnalyzeSearchIntent(query, reply).intent]
    /\ UNCHANGED <<provider, db, store, progress, pc, todo, now, snap>>

NextIntent == AnalyzeIntent

SpecIntent == InitStore /\ [][NextIntent]_vars

-----------------------------------------------------------------------------
(* DatabaseObjectDocumenter._format_type_info, over the rows of the catalog *)

\* the type rows: max_length, precision and scale as the driver returns
\* them, precision and scale being NULL (None) or a number
TypeInfos ==
    [data_type : {"int", "decimal", "varchar"},
     max_length : {-1, 0, 1, 4},
     precision : {None, Some(0), Some(10)},
     scale : {None, Some(0), Some(2)}]

\* one call of _format_type_info
FormatType ==
    /\ \E type_info \in TypeInfos :
          /\ args' = type_info
          /\ last' = [NoLast EXCEPT !.op = "format",
                         !.content = FormatTypeInfo(type_info)]
    /\ UNCHANGED <<provider, db, store, progress, pc, todo, now, snap>>

NextFormat == FormatType

SpecFormat == InitStore /\ [][NextFormat]_vars

-----------------------------------------------------------------------------
(* Properties of the Batch Orchestrator                                     *)

\* the call of task t is between its line 83 and its Complete / Failed write
InCall(t) == InBatch(t)

Phase == progress.phase

\* C1: during one call the phase only moves forward, by the steps
\* reset -> Initializing -> Processing -> Complete | Failed (Failed also from
\* Initializing, when the discovery raises); it is never set back to an
\* earlier phase before the call has ended.
C1_PhaseSteps ==
    [][ (\E t \in Tasks : InCall(t)) =>
            \/ Phase' = Phase
            \/ <<Phase, Phase'>> \in
                  { <<"Initializing", "Processing">>,
                    <<"Initializing", "Failed">>,
                    <<"Processing", "Complete">>,
                    <<"Processing", "Failed">> } ]_vars

\* C2: once the phase is Processing, and in Complete and Failed after it,
\* 0 <= current <= total.
C2_CurrentWithinTotal ==
    Phase \in {"Processing", "Complete", "Failed"} =>
        0 <= progress.current /\ progress.current <= progress.total

\* C3: during a call current grows by exactly one on each document() that
\* returns and changes on no other step, and total is the number of objects
\* the discovery returned, unchanged until the call ends.
C3_CurrentCountsDocumented ==
    [][ \A t \in Tasks :
          /\ InCall(t) =>
                progress'.current = progress.current +
                    (IF last'.op = "document" /\ last'.ok THEN 1 ELSE 0)
          /\ (pc[t] = "init" /\ last'.task = t /\ last'.ok) =>
                progress'.total = last'.n
          /\ pc[t] \in {"proc", "await"} =>
                progress'.total = progress.total ]_vars

\* C4: when the discovery or an object's document() raises, the phase
\* becomes Failed, the call raises and is over, no later object is
\* attempted, current keeps its value and the index is not written; a call
\* that is over takes no step any more, so it never writes Complete.
C4_FailureEndsBatch ==
    [][ \A t \in Tasks :
          /\ (last'.task = t /\ last'.op \in {"discover", "document"}
                /\ ~last'.ok) =>
                /\ Phase' = "Failed"
                /\ last'.raised
                /\ pc'[t] = "done" /\ todo'[t] = <<>>
                /\ progress'.current = progress.current
                /\ store' = store
          /\ pc[t] = "done" => (pc'[t] = "done" /\ last'.task # t) ]_vars

\* the first of two discovered objects failed: the second is never attempted
C4_Witness ==
    /\ last.op = "document" /\ ~last.ok /\ last.raised
    /\ Phase = "Failed" /\ pc[last.task] = "done"
    /\ progress.total = 2 /\ progress.current = 0

\* the last step was a document() whose gateway gave no narrative
EnrichmentUnavailable ==
    last.op = "document" /\ last.asked /\ last.gateway = "unavailable"

\* the records of the last step's object in its own partition
LastRecords ==
    {d \in store[CollectionName(last.obj.type)].docs :
        d.id = last.obj.schema_name \o "." \o last.obj.name}

\* C5: when the gateway fails or is unavailable, document() still persists
\* exactly one record, without an Analysis section, does not raise, and the
\* batch goes on. An upsert that the index refuses for a reason of its own
\* is left out: it is no consequence of the gateway.
C5_EnrichmentNeverFails ==
    (EnrichmentUnavailable /\ last.error # "upsert failed") =>
        /\ last.ok /\ ~last.raised
        /\ Cardinality(LastRecords) = 1
        /\ \A d \in LastRecords : ~Contains(d.content, "Analysis:")
        /\ pc[last.task] = "proc"

\* what the gateway's failure never does: the content handed to the index
\* has no Analysis section, and document() raises only with the error of
\* the index
EnrichmentFailureStaysLocal ==
    EnrichmentUnavailable =>
        /\ ~Contains(last.content, "Analysis:")
        /\ last.ok =>
              /\ Cardinality(LastRecords) = 1
              /\ \A d \in LastRecords : d.content = last.content
        /\ ~last.ok =>
              \/ last.error = "upsert failed"
              \/ last.error = "Collection " \o CollectionName(last.obj.type)
                                \o " does not exist."

\* C6: a document() that returns has replaced or added exactly the record
\* schema.name of the partition of its variant and changed nothing else; a
\* document() that raises has written nothing.
C6_OneUpsertOrNothing ==
    [][ last'.op \in {"document", "await"} =>
          LET part == CollectionName(last'.obj.type)
              id == last'.obj.schema_name \o "." \o last'.obj.name
          IN IF last'.op = "document" /\ last'.ok
             THEN /\ \A c \in CollNames \ {part} : store'[c] = store[c]
                  /\ store'[part].exists = store[part].exists
                  /\ {d \in store'[part].docs : d.id # id} =
                         {d \in store[part].docs : d.id # id}
                  /\ Cardinality({d \in store'[part].docs : d.id = id}) = 1
                  /\ \A d \in store'[part].docs :
                         d.id = id => d.content = last'.content
             ELSE store' = store ]_vars

\* a document() returned while another partition holds a record
C6_Witness ==
    /\ last.op = "document" /\ last.ok
    /\ Cardinality(LastRecords) = 1
    /\ \E t \in ObjTypes \ {last.obj.type} : Count(store, t) = 1

-----------------------------------------------------------------------------
(* Properties of the Document Index                                         *)

\* add_documentation of a probe record through the handle of tag t returns
UpsertSucceeds(st, t) ==
    AddDocumentation(st, "dbo", "probe", t, "probe", [rev |-> 0], FALSE).ok

\* C7: when a call inside clear() raises, clear() raises with the text of
\* that error in its message, and, unless the recreation in the cleanup loop
\* itself raises, all four partitions exist afterwards and take upserts.
C7_FailedClearRestoresPartitions ==
    (last.op = "clear" /\ last.original # "") =>
        /\ ~last.ok
        /\ Contains(last.error, last.original)
        /\ last.cleanup = "" =>
              \A t \in ObjTypes :
                  /\ store[CollectionName(t)].exists
                  /\ UpsertSucceeds(store, t)

\* clear() failed at the recreation of the first partition, after that
\* partition was dropped, and the cleanup loop brought it back
C7_Witness ==
    /\ last.op = "clear" /\ ~last.ok /\ last.recovered
    /\ last.failAt = 2
    /\ \A t \in ObjTypes : store[CollectionName(t)].exists

\* C8 as stated: after a clear() that returns, every partition exists and is
\* empty, the counts of get_stats are all zero, and an upsert through the
\* handle of each tag succeeds.
C8_ClearedStoreUsable ==
    (last.op = "clear" /\ last.ok) =>
        /\ \A t \in ObjTypes : GetStats(store)[t] = 0
        /\ \A t \in ObjTypes :
              /\ store[CollectionName(t)].exists
              /\ store[CollectionName(t)].docs = {}
              /\ UpsertSucceeds(store, t)

\* C9: when the cleanup loop of a failed clear() raises as well, the message
\* of the error clear() raises has both the text of the original error and
\* the text of the cleanup error; the original text is in the message of
\* every failed clear().
C9_BothErrorsReported ==
    (last.op = "clear" /\ ~last.ok) =>
        /\ last.original # ""
        /\ Contains(last.error, last.original)
        /\ ~last.recovered =>
              /\ last.cleanup # ""
              /\ Contains(last.error, last.cleanup)

\* a clear() whose cleanup loop raised too, with a text of its own
C9_Witness ==
    /\ last.op = "clear" /\ ~last.ok /\ ~last.recovered
    /\ last.cleanup # "" /\ last.cleanup # last.original
    /\ Contains(last.error, last.original)
    /\ Contains(last.error, last.cleanup)

\* C10: an add_documentation that returns leaves exactly one record of id
\* schema.name in the partition of its tag, with the content and the merged
\* metadata of this call, and changes no record of another id and no other
\* partition.
C10_UpsertReplaces ==
    [][ (last'.op = "add" /\ last'.ok) =>
          LET o == last'.obj
              part == CollectionName(o.type)
              id == o.schema_name \o "." \o o.name
          IN /\ {d \in store'[part].docs : d.id = id} =
                    { [id |-> id, content |-> last'.content,
                       metadata |-> [schema |-> o.schema_name, name |-> o.name,
                                     type |-> o.type,
                                     rev |-> last'.metadata.rev]] }
             /\ {d \in store'[part].docs : d.id # id} =
                    {d \in store[part].docs : d.id # id}
             /\ store'[part].exists = store[part].exists
             /\ \A c \in CollNames \ {part} : store'[c] = store[c] ]_vars

\* a second add_documentation of an id replaced its record, next to a record
\* of another id and to a record of the same id in another partition
C10_Witness ==
    /\ last.op = "add" /\ last.ok /\ last.replaced
    /\ last.content = "v2"
    /\ Count(store, last.obj.type) = 2
    /\ \E t \in ObjTypes \ {last.obj.type} :
          \E d \in store[CollectionName(t)].docs :
              d.id = last.obj.schema_name \o "." \o last.obj.name

-----------------------------------------------------------------------------
(* Properties of search                                                     *)

\* every stored record as a hit of the query of the last search
StoredHits ==
    UNION { {Hit(last.query, t, d) : d \in store[CollectionName(t)].docs} :
            t \in ObjTypes }

\* the results are distinct stored records, nearest first, as many as the
\* limit allows, and no record left out is nearer than one returned
RankedResults ==
    LET res == last.results
        total == Cardinality(StoredHits)
    IN /\ Len(res) = (IF last.limit < total THEN last.limit ELSE total)
       /\ \A i \in 1..Len(res) : res[i] \in StoredHits
       /\ \A i, j \in 1..Len(res) :
             /\ i < j => res[i].distance <= res[j].distance
             /\ i # j => res[i] # res[j]
       /\ \A h \in StoredHits :
             (\A i \in 1..Len(res) : res[i] # h) =>
                 \A i \in 1..Len(res) : res[i].distance <= h.distance

\* C11: every search returns the records with the `limit` smallest
\* distances over all partitions, nearest first, min(limit, number of stored
\* records) of them, and a partition without records is skipped without
\* error.
C11_SearchRanksAcrossPartitions ==
    last.op = "search" => (last.ok /\ RankedResults)

\* the ranking of C11 for the searches made while every handle of
\* self.collections refers to a collection that exists
SearchRanksLivePartitions ==
    (last.op = "search" /\ \A t \in ObjTypes : HandleLive(store, t)) =>
        (last.ok /\ RankedResults)

\* partitions with distances [9], [1, 5], [3] and an empty one, limit 2:
\* the results are the records at 1 and 3
SearchRanksExample ==
    /\ last.op = "search" /\ last.ok /\ last.query = 1 /\ last.limit = 2
    /\ Count(store, "table") = 1 /\ Count(store, "view") = 2
    /\ Count(store, "procedure") = 1 /\ Count(store, "function") = 0
    /\ Len(last.results) = 2
    /\ last.results[1].distance = 1 /\ last.results[2].distance = 3

-----------------------------------------------------------------------------
(* Properties of the documenter variants                                    *)

\* C12: in the record a document() persisted, the separator
\* "\n\nAnalysis:\n" occurs at most once, and only if the gateway returned a
\* narrative for the object, whatever the definition text and the narrative
\* text are.
C12_SeparatorOnceAndOnlyEnriched ==
    (last.op = "document" /\ last.ok) =>
        \A d \in LastRecords :
            LET n == Cardinality(Occurrences(d.content, "\n\nAnalysis:\n"))
            IN /\ n <= 1
               /\ n = 1 => last.gateway = "narrative"

\* C13: for the record the summary selects, the summary is the stored
\* content up to, not including, the first "\n\nAnalysis:\n", and the whole
\* stored content when that marker does not occur in it.
C13_SummaryCutsAtSeparator ==
    (last.op = "summary" /\ last.results # <<>>) =>
        LET doc == last.results[1].content
            occ == Occurrences(doc, "\n\nAnalysis:\n")
        IN last.summary =
              IF occ = {} THEN doc
              ELSE SubSeq(doc, 1,
                     (CHOOSE i \in occ : \A j \in occ : i <= j) - 1)

-----------------------------------------------------------------------------
(* Properties of the read side                                              *)

\* C14: get_progress and search_documentation leave ProgressState as it is;
\* the dictionary get_progress returns equals ProgressState at that moment,
\* no later step of a batch changes it, and no change its holder makes to
\* it, nested usage counters included, changes ProgressState.
C14_SnapshotIndependent ==
    [][ /\ last'.op \in {"get_progress", "search"} => progress' = progress
        /\ last'.op = "get_progress" => snap'.value = progress
        /\ last'.op \in {"process_batch", "begin", "discover", "skip",
                         "complete"} => snap'.value = snap.value
        /\ last'.op \in {"modify_key", "modify_usage"} =>
              progress' = progress ]_vars

-----------------------------------------------------------------------------
(* Properties of a whole batch                                              *)

\* C15: a batch that goes through the discovered list without an error
\* ends Complete with current = total = the number of discovered objects, and
\* every object it went past has one record in the partition of its type,
\* with an Analysis section exactly when the gateway returned a narrative
\* for it.
C15_CompleteCountsEveryObject ==
    [][ /\ last'.op = "complete" =>
              /\ Phase' = "Complete"
              /\ progress'.current = progress'.total
        /\ (last'.op \in {"document", "skip"} /\ last'.ok) =>
              LET o == last'.obj
                  recs == IF o.type \in ObjTypes
                          THEN {d \in store'[CollectionName(o.type)].docs :
                                  d.id = o.schema_name \o "." \o o.name}
                          ELSE {}
              IN /\ progress'.current = progress.current + 1
                 /\ Cardinality(recs) = 1
                 /\ \A d \in recs :
                       Contains(d.content, AnalysisSeparator)
                           <=> last'.gateway = "narrative" ]_vars

-----------------------------------------------------------------------------
(* Properties of analyze_search_intent                                      *)

\* the reply of the last call gives no intent: the provider raised, the text
\* has no "{" or no "}", or the span between them is not valid JSON
NoIntentInReply ==
    LET text == args.reply.text
    IN \/ args.reply.raises
       \/ ~Contains(text, "{")
       \/ ~Contains(text, "}")
       \/ RFind(text, "}") < Find(text, "{")
       \/ Slice0(text, Find(text, "{"), RFind(text, "}") + 1)
              \notin DOMAIN JsonValues

\* C16: analyze_search_intent never raises, and when the provider call
\* fails, the reply has no "{" or no "}", or the span is not valid JSON, it
\* returns the default intent with search_query the query it was given.
C16_IntentFallbackTotal ==
    last.op = "intent" =>
        /\ last.ok /\ ~last.raised
        /\ NoIntentInReply =>
              last.intent =
                  [object_type |-> "any", detail_level |-> "basic_info",
                   include_fields |-> <<"schema", "name", "type">>,
                   format_template |-> "{schema}.{name} ({type})",
                   search_query |-> args.query]

\* a call whose provider would answer with a span that is not valid JSON
C16_Witness ==
    /\ last.op = "intent"
    /\ ~args.reply.raises /\ args.reply.text = "Sure: {not json} ok"
    /\ args.query = "orders"
    /\ last.intent.search_query = "orders"
    /\ last.intent.object_type = "any"

-----------------------------------------------------------------------------
(* Properties of _format_type_info                                          *)

\* C17: for every type row, 0 counting as a present precision or scale:
\* max_length # -1 gives data_type(max_length); otherwise a present precision
\* gives data_type(precision), or data_type(precision,scale) when the scale
\* is present too; otherwise the bare data_type.
C17_TypeFormat ==
    last.op = "format" =>
        last.content =
            IF args.max_length # -1
            THEN args.data_type \o "(" \o ToString(args.max_length) \o ")"
            ELSE IF args.precision # None /\ args.scale # None
            THEN args.data_type \o "(" \o ToString(args.precision[1]) \o ","
                    \o ToString(args.scale[1]) \o ")"
            ELSE IF args.precision # None
            THEN args.data_type \o "(" \o ToString(args.precision[1]) \o ")"
            ELSE args.data_type

\* C18: at most one documentation job runs at a time: no two document_batch
\* executions are both between their reset and their Complete / Failed
\* write on the one progress dictionary
C18_OneJobAtATime ==
    Cardinality({t \in Tasks : InBatch(t)}) <= 1

\* the answers in which a query document() depends on yields no row
NoRowFaults == {"nodef", "noret"}

\* C19 (as claimed): for every variant, Table included, a document() call
\* whose definition query (or, for a function, return-type query) yields no
\* row fails and leaves the index as it was
C19_DefinitionRequired ==
    [][(last'.op = "document" /\ last'.fault \in NoRowFaults)
           => (~last'.ok /\ ~last'.asked /\ store' = store)]_vars

\* C19 (amended): that holds for the View, Procedure and Function variants;
\* the Table variant does not query a definition: whatever that query would
\* yield, its document() asks the gateway and ends as a call whose
\* definition query has a row ends, with the same content, the same index
\* and the same outcome
C19_DefinitionRequiredExceptTable ==
    [][(last'.op = "document" /\ last'.fault \in NoRowFaults)
           => IF last'.obj.type = "table"
              THEN /\ last'.asked
                   /\ \E in \in DocInputs("table") :
                         /\ in.fault = "none"
                         /\ \E d \in {Document(store, last'.obj,
                                         Answers(last'.obj.name, in.fault),
                                         in.reply, in.storeFault)} :
                               /\ d.store = store'
                               /\ d.ok = last'.ok
                               /\ d.content = last'.content
                               /\ d.ok => Contains(d.content, "Table: ")
              ELSE ~last'.ok /\ ~last'.asked /\ store' = store]_vars

\* a table whose definition query has no row was documented and persisted
TableWithoutDefinitionPersisted ==
    /\ last.op = "document" /\ last.fault = "nodef"
    /\ last.obj.type = "table" /\ last.ok
    /\ Cardinality(LastRecords) = 1

C19_Witness ==
    /\ last.op = "document"
    /\ last.fault = "nodef"
    /\ last.obj.type \in {"view", "procedure", "function"}
    /\ ~last.ok
    /\ progress.phase = "Failed"

\* C20: batch_size is pacing only: whatever its value, the objects the
\* loops of document_batch are about to visit are the discovered objects in
\* order, as they are for batch_size = 1, and the loop header itself does
\* not end the batch
C20_BatchSizeIsPacing ==
    /\ last.op = "discover" /\ last.ok =>
          todo[last.task] = VisitOrder(last.n, 1)
    /\ last.op # "range"

\* for the batch sizes above 0 the visit order is the discovered order
PositiveBatchSizeIsPacing ==
    (last.op = "discover" /\ last.ok /\ args[last.task].batch_size > 0) =>
        todo[last.task] = VisitOrder(last.n, 1)

\* a / b cut towards zero
Truncated(a, b) == IF a >= 0 THEN a \div b ELSE 0 - ((0 - a) \div b)

\* C21: estimated_time_remaining is null while current is at most 1; after
\* every successful object with current > 1 it is the whole seconds of
\* (total - current) * (elapsed seconds / current), which is never negative
\* and is 0 when current = total
C21_EstimateFromAverage ==
    /\ progress.current <= 1 => progress.estimated_time_remaining = None
    /\ (last.op = "document" /\ last.ok /\ ~last.raised
          /\ progress.current > 1) =>
          /\ progress.estimated_time_remaining =
                Some(Truncated((progress.total - progress.current)
                                   * (now - progress.start_time[1]),
                               progress.current))
          /\ progress.estimated_time_remaining[1] >= 0
          /\ progress.current = progress.total =>
                progress.estimated_time_remaining = Some(0)

\* the estimate is the one of the cumulative average, cut to whole seconds
\* towards zero, also where overlapping batches make it negative
EstimateIsTruncatedAverage ==
    (last.op = "document" /\ last.ok /\ ~last.raised
          /\ progress.current > 1) =>
        progress.estimated_time_remaining =
            Some(Truncated((progress.total - progress.current)
                               * (now - progress.start_time[1]),
                           progress.current))

\* C22: every document_batch call ends: the task a batch request created
\* is over after finitely many steps and the step that ends it writes
\* Complete or Failed; while the phase is Initializing or Processing a task
\* is still to end, so the phase does not stay there; and a task that is
\* over takes no step (the progress then changes only in the steps of other
\* tasks and of requests)
C22_BatchEnds ==
    /\ \A t \in Tasks : (pc[t] = "spawned") ~> (pc[t] = "done")
    /\ [](progress.phase \in {"Initializing", "Processing"}
             => \E t \in Tasks : InBatch(t))
    /\ [][\A t \in Tasks :
            /\ (pc[t] # "done" /\ pc'[t] = "done") =>
                  (last'.task = t /\ progress'.phase \in {"Complete", "Failed"})
            /\ pc[t] = "done" => (pc'[t] = "done" /\ last'.task # t)]_vars

C22_Witness ==
    /\ last.op = "complete"
    /\ pc[last.task] = "done"
    /\ progress.phase = "Complete"
    /\ progress.total = MaxObjects
    /\ progress.current = progress.total

\* C23: in a batch run with include_llm_analysis = false no document() call
\* invokes the gateway and no record it stores holds an Analysis section
C23_NoEnrichmentWhenDisabled ==
    (last.op = "document" /\ ~args[last.task].include_llm_analysis) =>
        /\ ~last.asked
        /\ ~Contains(last.content, AnalysisSeparator)

\* no batch was started after the first one
OneBatchOnly == \A t \in Tasks : t > 1 => pc[t] = NoTask

\* C24: a clear request handled while a batch waits leaves the progress
\* sound: current stays within 0..total, the phase becomes Complete or
\* Failed only from Initializing or Processing, and a clear() that raises
\* leaves the progress as it was
C24_ProgressSurvivesClear ==
    [][OneBatchOnly' =>
          /\ 0 <= progress'.current
          /\ progress'.current <= progress'.total
          /\ (progress'.phase \in {"Complete", "Failed"}
                /\ progress'.phase # progress.phase)
                => progress.phase \in {"Initializing", "Processing"}
          /\ (last'.op = "clear" /\ ~last'.ok) => progress' = progress]_vars

\* the last part alone: a clear() that raises leaves the progress as it was
FailedClearKeepsProgress ==
    [][(last'.op = "clear" /\ ~last'.ok) => progress' = progress]_vars

\* C25: the summary of (schema, name, type) comes from the record of id
\* "schema.name" in the partition of `type` when there is one, and is the
\* fixed message "No documentation found for <type> <schema>.<name>" when
\* there is none, whatever else the index holds
C25_SummaryOfRequestedObject ==
    last.op = "summary" =>
        LET obj == last.obj
            id == DocId(obj.schema_name, obj.name)
        IN IF obj.type \notin ObjTypes \/ RecordsOf(store, obj.type, id) = {}
           THEN last.summary = "No documentation found for " \o obj.type
                                  \o " " \o id
           ELSE /\ last.results # <<>>
                /\ last.results[1].id = id
                /\ last.results[1].type = obj.type

=============================================================================
